---- MODULE Spec2Model ----
(***************************************************************************)
(* Model of compute_technical_indicators (dmfinal.py, lines 23-77).        *)
(*                                                                         *)
(* A table (pandas DataFrame) is a function from column names to           *)
(* sequences of equal length; row i of the table is position i of every    *)
(* column.  Tables are objects: `heap` maps object references to tables,   *)
(* so that a write through one name is seen through every alias.           *)
(*                                                                         *)
(* Numbers are the extended reals of float arithmetic without rounding:    *)
(* a finite number is a normalised fraction <<n, d>> with d > 0, and       *)
(*   NaN = <<0, 0>>, +inf = <<1, 0>>, -inf = <<-1, 0>>.                    *)
(* A square root that is not rational is kept exactly, as the triple       *)
(* <<a, b, q>> standing for a + b * sqrt(q) with a, b, q fractions.        *)
(***************************************************************************)
EXTENDS Integers, Sequences, FiniteSets

(***************************************************************************)
(* Bounds of the model.                                                    *)
(***************************************************************************)
\* Longest series whose closes and row order are enumerated exhaustively.
MaxLen == 2
\* Longest series of the shaped families (ramps, late moves, zigzags), apart
\* from those just long enough to fill the 50-row window.
MaxRows == 21

(***************************************************************************)
(* Program constants: the window and span of each indicator.               *)
(***************************************************************************)
SMA10Window == 10
SMA50Window == 50
EMA10Span == 10
EMA50Span == 50
MACDFastSpan == 12
MACDSlowSpan == 26
MACDSignalSpan == 9
RSIWindow == 14
BBWindow == 20
BBWidth == 2

(***************************************************************************)
(* Extended-real arithmetic.                                               *)
(***************************************************************************)
NaN == <<0, 0>>
PosInf == <<1, 0>>
NegInf == <<-1, 0>>

Abs(n) == IF n < 0 THEN -n ELSE n

RECURSIVE GCD(_, _)
GCD(a, b) == IF b = 0 THEN a ELSE GCD(b, a % b)

\* The fraction n/d (d # 0) in lowest terms with a positive denominator.
Rat(n, d) ==
    LET s == IF d < 0 THEN -1 ELSE 1
        g == GCD(Abs(n), Abs(d))
    IN  <<(s * n) \div g, (s * d) \div g>>

Int2Num(n) == <<n, 1>>
Zero == <<0, 1>>
One == <<1, 1>>

IsSurd(x) == Len(x) = 3
IsNaN(x) == x = NaN
IsInf(x) == x = PosInf \/ x = NegInf
IsFinite(x) == IsSurd(x) \/ x[2] # 0

\* Sum, difference, product and quotient of two fractions or infinities.
RAdd(x, y) ==
    IF IsNaN(x) \/ IsNaN(y) THEN NaN
    ELSE IF x[2] = 0 /\ y[2] = 0 THEN (IF x = y THEN x ELSE NaN)
    ELSE IF x[2] = 0 THEN x
    ELSE IF y[2] = 0 THEN y
    ELSE LET g == GCD(x[2], y[2])
             l == (x[2] \div g) * y[2]
         IN  Rat(x[1] * (l \div x[2]) + y[1] * (l \div y[2]), l)

RNeg(x) == <<-x[1], x[2]>>

Sign(n) == IF n > 0 THEN 1 ELSE IF n < 0 THEN -1 ELSE 0

RMul(x, y) ==
    IF IsNaN(x) \/ IsNaN(y) THEN NaN
    ELSE IF x[2] = 0 \/ y[2] = 0
         THEN (IF x[1] = 0 \/ y[1] = 0 THEN NaN
               ELSE <<Sign(x[1]) * Sign(y[1]), 0>>)
    ELSE LET g1 == GCD(Abs(x[1]), y[2])
             g2 == GCD(Abs(y[1]), x[2])
         IN  Rat((x[1] \div g1) * (y[1] \div g2), (x[2] \div g2) * (y[2] \div g1))

\* Float division: x/0 is an infinity of x's sign, 0/0 and inf/inf are NaN;
\* no error is raised.
RDiv(x, y) ==
    IF IsNaN(x) \/ IsNaN(y) THEN NaN
    ELSE IF y[2] = 0 THEN (IF x[2] = 0 THEN NaN ELSE Zero)
    ELSE IF y[1] = 0
         THEN (IF x[1] = 0 THEN NaN ELSE <<Sign(x[1]), 0>>)
    ELSE IF x[2] = 0 THEN <<Sign(x[1]) * Sign(y[1]), 0>>
    ELSE RMul(x, Rat(y[2], y[1]))

\* a + b*sqrt(q), collapsed to a fraction when the root part vanishes.
Surd(a, b, q) == IF b = Zero \/ q = Zero THEN a ELSE <<a, b, q>>

SurdA(x) == IF IsSurd(x) THEN x[1] ELSE x
SurdB(x) == IF IsSurd(x) THEN x[2] ELSE Zero

Add(x, y) ==
    IF ~IsSurd(x) /\ ~IsSurd(y) THEN RAdd(x, y)
    ELSE IF IsNaN(x) \/ IsNaN(y) THEN NaN
    ELSE IF ~IsFinite(x) THEN x
    ELSE IF ~IsFinite(y) THEN y
    ELSE Surd(RAdd(SurdA(x), SurdA(y)), RAdd(SurdB(x), SurdB(y)),
              IF IsSurd(x) THEN x[3] ELSE y[3])

Neg(x) == IF IsSurd(x) THEN <<RNeg(x[1]), RNeg(x[2]), x[3]>> ELSE RNeg(x)

Sub(x, y) == Add(x, Neg(y))

\* Product; a root is only ever scaled by a fraction.
Mul(x, y) ==
    IF ~IsSurd(x) /\ ~IsSurd(y) THEN RMul(x, y)
    ELSE IF IsSurd(y) THEN
         (IF IsNaN(x) THEN NaN
          ELSE IF IsInf(x) THEN x
          ELSE Surd(RMul(x, y[1]), RMul(x, y[2]), y[3]))
    ELSE (IF IsNaN(y) THEN NaN
          ELSE IF IsInf(y) THEN y
          ELSE Surd(RMul(y, x[1]), RMul(y, x[2]), x[3]))

\* Variant: a zero divisor gives a missing value.
DivZeroIsNaN(x, y) == IF y = Zero THEN NaN ELSE RDiv(x, y)

Div(x, y) == RDiv(x, y)

\* x > 0 as the float comparison: false on NaN.
GtZero(x) == ~IsNaN(x) /\ x[1] > 0
LtZero(x) == ~IsNaN(x) /\ x[1] < 0

\* Floor of the square root of a natural number, by bisection.
RECURSIVE ISqrtIn(_, _, _)
ISqrtIn(n, lo, hi) ==
    IF lo >= hi THEN lo
    ELSE LET mid == (lo + hi + 1) \div 2
         IN  IF mid * mid <= n THEN ISqrtIn(n, mid, hi) ELSE ISqrtIn(n, lo, mid - 1)

ISqrt(n) == ISqrtIn(n, 0, IF n < 46340 THEN n ELSE 46340)

IsSquare(n) == ISqrt(n) * ISqrt(n) = n

\* Square root of a fraction x >= 0: exact when rational, else kept as a root.
Sqrt(x) ==
    IF IsNaN(x) \/ LtZero(x) THEN NaN
    ELSE IF IsInf(x) THEN x
    ELSE IF IsSquare(x[1]) /\ IsSquare(x[2]) THEN <<ISqrt(x[1]), ISqrt(x[2])>>
    ELSE <<Zero, One, x>>

(***************************************************************************)
(* pandas Series operations, on sequences of numbers (position 1 of a      *)
(* sequence is row 0 of the Series).                                       *)
(***************************************************************************)
\* A Series holds its values: the sequence with every element computed.
Values(f) == SubSeq(f, 1, Len(f))

\* x[lo] + ... + x[hi], summed by halves.
RECURSIVE SumRange(_, _, _)
SumRange(x, lo, hi) ==
    IF lo > hi THEN Zero
    ELSE IF lo = hi THEN x[lo]
    ELSE LET mid == (lo + hi) \div 2
         IN  Add(SumRange(x, lo, mid), SumRange(x, mid + 1, hi))

HasNaN(x, lo, hi) == \E j \in lo..hi : IsNaN(x[j])

\* Variant: min_periods = 1, the mean of the rows seen so far while the
\* window is not yet full.
RollingMeanMinPeriods1(x, w) ==
    Values([i \in 1..Len(x) |->
        IF i < w THEN Div(SumRange(x, 1, i), Int2Num(i))
        ELSE Div(SumRange(x, i - w + 1, i), Int2Num(w))])

\* Series.rolling(window=w).mean(): min_periods defaults to w, so the value
\* is NaN until w observations are in the window.
RollingMean(x, w) ==
    Values([i \in 1..Len(x) |->
        IF i < w \/ HasNaN(x, i - w + 1, i) THEN NaN
        ELSE Div(SumRange(x, i - w + 1, i), Int2Num(w))])

\* The sum of the squared deviations of x[lo..hi] from m, summed by halves.
RECURSIVE SumSqDev(_, _, _, _)
SumSqDev(x, m, lo, hi) ==
    IF lo > hi THEN Zero
    ELSE IF lo = hi THEN Mul(Sub(x[lo], m), Sub(x[lo], m))
    ELSE LET mid == (lo + hi) \div 2
         IN  Add(SumSqDev(x, m, lo, mid), SumSqDev(x, m, mid + 1, hi))

\* Variant: the population standard deviation (ddof = 0).
RollingStdPopulation(x, w) ==
    Values([i \in 1..Len(x) |->
        IF i < w \/ HasNaN(x, i - w + 1, i) THEN NaN
        ELSE LET m == Div(SumRange(x, i - w + 1, i), Int2Num(w))
             IN  Sqrt(Div(SumSqDev(x, m, i - w + 1, i), Int2Num(w)))])

\* Series.rolling(window=w).std(): sample standard deviation (ddof = 1).
RollingStd(x, w) ==
    Values([i \in 1..Len(x) |->
        IF i < w \/ HasNaN(x, i - w + 1, i) THEN NaN
        ELSE LET m == Div(SumRange(x, i - w + 1, i), Int2Num(w))
             IN  Sqrt(Div(SumSqDev(x, m, i - w + 1, i), Int2Num(w - 1)))])

\* Variant: Wilder's smoothing factor, alpha = 1 / n.
AlphaWilder(span) == Rat(1, span)

\* The smoothing factor of ewm(span=n): alpha = 2 / (n + 1).
Alpha(span) == Rat(2, span + 1)

\* One step of ewm(adjust=False): y = (1 - alpha) * prev + alpha * cur.
EwmStep(prev, cur, span) ==
    Add(Mul(Sub(One, Alpha(span)), prev), Mul(Alpha(span), cur))

\* The seed of ewm(adjust=False): the first observation.
EwmSeed(x, span) == x[1]

\* The averages of rows lo..hi, given the average `prev` of row lo - 1: one
\* left-to-right pass, split in halves (the right half starts from the last
\* average of the left half).
RECURSIVE EwmRange(_, _, _, _, _)
EwmRange(x, span, prev, lo, hi) ==
    IF lo > hi THEN <<>>
    ELSE IF lo = hi THEN <<EwmStep(prev, x[lo], span)>>
    ELSE LET mid == (lo + hi) \div 2
             left == EwmRange(x, span, prev, lo, mid)
         IN  left \o EwmRange(x, span, left[Len(left)], mid + 1, hi)

\* Series.ewm(span=n, adjust=False).mean()
EwmMean(x, span) ==
    IF Len(x) = 0 THEN <<>>
    ELSE <<EwmSeed(x, span)>> \o EwmRange(x, span, EwmSeed(x, span), 2, Len(x))

\* Series.diff(1): NaN at the first row.
Diff(x) == Values([i \in 1..Len(x) |-> IF i = 1 THEN NaN ELSE Sub(x[i], x[i - 1])])

\* lambda x: x if x > 0 else 0        (NaN > 0 is false)
GainOf(x) == IF GtZero(x) THEN x ELSE Zero
\* lambda x: -x if x < 0 else 0
LossOf(x) == IF LtZero(x) THEN Neg(x) ELSE Zero

SeriesApply1(x, which) ==
    Values([i \in 1..Len(x) |-> IF which = "gain" THEN GainOf(x[i]) ELSE LossOf(x[i])])

\* Elementwise arithmetic of two Series over the same index.
SeriesSub(x, y) == Values([i \in 1..Len(x) |-> Sub(x[i], y[i])])
SeriesAdd(x, y) == Values([i \in 1..Len(x) |-> Add(x[i], y[i])])
SeriesDiv(x, y) == Values([i \in 1..Len(x) |-> Div(x[i], y[i])])
ScalarMul(k, x) == Values([i \in 1..Len(x) |-> Mul(Int2Num(k), x[i])])
ScalarAdd(k, x) == Values([i \in 1..Len(x) |-> Add(Int2Num(k), x[i])])
ScalarDivBy(k, x) == Values([i \in 1..Len(x) |-> Div(Int2Num(k), x[i])])
ScalarSubFrom(k, x) == Values([i \in 1..Len(x) |-> Sub(Int2Num(k), x[i])])

(***************************************************************************)
(* pandas DataFrame operations.                                            *)
(***************************************************************************)
Columns(d) == DOMAIN d

NRows(d) == IF Columns(d) = {} THEN 0 ELSE Len(d[CHOOSE c \in Columns(d) : TRUE])

\* data[c] = s
SetCol(d, c, s) == [k \in Columns(d) \cup {c} |-> IF k = c THEN s ELSE d[k]]

\* The place of row i in ascending order of `key`: one more than the number
\* of rows that sort before it (rows with equal keys keep their order).
PlaceOf(key, i) ==
    1 + Cardinality({j \in 1..Len(key) :
                        key[j] < key[i] \/ (key[j] = key[i] /\ j < i)})

\* The rows of a table with the keys `key`, listed in ascending key order.
SortOrder(key, n) ==
    LET place == Values([i \in 1..n |-> PlaceOf(key, i)])
    IN  Values([k \in 1..n |-> CHOOSE i \in 1..n : place[i] = k])

\* The rows of d in the order `order`.
Take(d, order) ==
    [c \in Columns(d) |-> Values([k \in 1..Len(order) |-> d[c][order[k]]])]

\* Variant: descending order (ascending=False).
SortValuesDescending(d, by) ==
    LET up == SortOrder(d[by], NRows(d))
    IN  Take(d, [k \in 1..Len(up) |-> up[Len(up) + 1 - k]])

\* DataFrame.sort_values(by): a new table, rows in ascending order of `by`.
SortValues(d, by) == Take(d, SortOrder(d[by], NRows(d)))

\* DataFrame.copy(): a new table with the same contents.
Copy(d) == d

(***************************************************************************)
(* compute_technical_indicators: the indicator blocks.  Each takes the     *)
(* table `d` being built, the Series `c` bound to `close` and the          *)
(* requested names `ind`, and gives the table after the block.             *)
(***************************************************************************)
Indicators ==
    {"SMA(10)", "SMA(50)", "EMA(10)", "EMA(50)", "MACD", "RSI", "Bollinger Bands"}

SMA10Block(d, c, ind) ==
    IF "SMA(10)" \in ind THEN SetCol(d, "SMA10", RollingMean(c, SMA10Window)) ELSE d

\* Variant: the column is always created, null-filled when not requested.
SMA50BlockEager(d, c, ind) ==
    SetCol(d, "SMA50",
           IF "SMA(50)" \in ind THEN RollingMean(c, SMA50Window)
           ELSE [i \in 1..Len(c) |-> NaN])

SMA50Block(d, c, ind) ==
    IF "SMA(50)" \in ind THEN SetCol(d, "SMA50", RollingMean(c, SMA50Window)) ELSE d

EMA10Block(d, c, ind) ==
    IF "EMA(10)" \in ind THEN SetCol(d, "EMA10", EwmMean(c, EMA10Span)) ELSE d

EMA50Block(d, c, ind) ==
    IF "EMA(50)" \in ind THEN SetCol(d, "EMA50", EwmMean(c, EMA50Span)) ELSE d

\* Variant: the histogram with its operands swapped.
MACDBlockHistSwapped(d, c, ind) ==
    IF "MACD" \in ind
    THEN LET d1 == SetCol(d, "EMA12", EwmMean(c, MACDFastSpan))
             d2 == SetCol(d1, "EMA26", EwmMean(c, MACDSlowSpan))
             d3 == SetCol(d2, "MACD", SeriesSub(d2["EMA12"], d2["EMA26"]))
             d4 == SetCol(d3, "MACD_Signal", EwmMean(d3["MACD"], MACDSignalSpan))
         IN  SetCol(d4, "MACD_Hist", SeriesSub(d4["MACD_Signal"], d4["MACD"]))
    ELSE d

\* Variant: the fast average is taken from an EMA10 column when an earlier
\* block left one in the table.
MACDBlockReusesEMA10(d, c, ind) ==
    IF "MACD" \in ind
    THEN LET d1 == SetCol(d, "EMA12",
                          IF "EMA10" \in Columns(d) THEN d["EMA10"]
                          ELSE EwmMean(c, MACDFastSpan))
             d2 == SetCol(d1, "EMA26", EwmMean(c, MACDSlowSpan))
             d3 == SetCol(d2, "MACD", SeriesSub(d2["EMA12"], d2["EMA26"]))
             d4 == SetCol(d3, "MACD_Signal", EwmMean(d3["MACD"], MACDSignalSpan))
         IN  SetCol(d4, "MACD_Hist", SeriesSub(d4["MACD"], d4["MACD_Signal"]))
    ELSE d

MACDBlock(d, c, ind) ==
    IF "MACD" \in ind
    THEN LET d1 == SetCol(d, "EMA12", EwmMean(c, MACDFastSpan))
             d2 == SetCol(d1, "EMA26", EwmMean(c, MACDSlowSpan))
             d3 == SetCol(d2, "MACD", SeriesSub(d2["EMA12"], d2["EMA26"]))
             d4 == SetCol(d3, "MACD_Signal", EwmMean(d3["MACD"], MACDSignalSpan))
         IN  SetCol(d4, "MACD_Hist", SeriesSub(d4["MACD"], d4["MACD_Signal"]))
    ELSE d

RSIBlock(d, c, ind) ==
    IF "RSI" \in ind
    THEN LET d1 == SetCol(d, "diff", Diff(c))
             d2 == SetCol(d1, "gain", SeriesApply1(d1["diff"], "gain"))
             d3 == SetCol(d2, "loss", SeriesApply1(d2["diff"], "loss"))
             d4 == SetCol(d3, "avg_gain", RollingMean(d3["gain"], RSIWindow))
             d5 == SetCol(d4, "avg_loss", RollingMean(d4["loss"], RSIWindow))
             d6 == SetCol(d5, "rs", SeriesDiv(d5["avg_gain"], d5["avg_loss"]))
         IN  SetCol(d6, "RSI",
                    ScalarSubFrom(100, ScalarDivBy(100, ScalarAdd(1, d6["rs"]))))
    ELSE d

BBBlock(d, c, ind) ==
    IF "Bollinger Bands" \in ind
    THEN LET d1 == SetCol(d, "BB_MA", RollingMean(c, BBWindow))
             d2 == SetCol(d1, "BB_STD", RollingStd(c, BBWindow))
             d3 == SetCol(d2, "BB_Upper",
                          SeriesAdd(d2["BB_MA"], ScalarMul(BBWidth, d2["BB_STD"])))
         IN  SetCol(d3, "BB_Lower",
                    SeriesSub(d3["BB_MA"], ScalarMul(BBWidth, d3["BB_STD"])))
    ELSE d

(***************************************************************************)
(* The inputs of a call: the caller's table and the requested names.       *)
(***************************************************************************)
\* Close prices of the exhaustively enumerated series.
CloseVals == {1, 2}

\* Columns a caller's table may have; Volume stands for the columns the
\* function never reads.
BaseColumns == {"Date", "Close", "Volume"}

\* The table with the rows of dates `dates` (in row order), where the bar of
\* date t closes at v[t], restricted to the columns `cols`.
MakeTable(dates, v, cols) ==
    [c \in cols |->
        IF c = "Date" THEN dates
        ELSE IF c = "Close" THEN [i \in 1..Len(dates) |-> Int2Num(v[dates[i]])]
        ELSE [i \in 1..Len(dates) |-> Int2Num(1000 + dates[i])]]

\* All row orders of n bars with the unique dates 1..n.
Perms(n) == {p \in [1..n -> 1..n] : \A i, j \in 1..n : p[i] = p[j] => i = j}

\* The row orders tried on long series: sorted and reversed.
LongOrders(n) == {[i \in 1..n |-> i], [i \in 1..n |-> n + 1 - i]}

\* Shaped close series of length n, by date.
RampUp(n) == [i \in 1..n |-> 9 + i]
RampDown(n) == [i \in 1..n |-> 100 - i]
Flat(n) == [i \in 1..n |-> 100]
ZigZag(n) == [i \in 1..n |-> IF i % 2 = 1 THEN 10 ELSE 12]
Mixed(n) == [i \in 1..n |-> 10 + ((i * i) % 7)]
\* Flat at `a`, then moving only in the last two rows.
LateMove(n, a, b, c) ==
    [i \in 1..n |-> IF i < n - 1 THEN a ELSE IF i = n - 1 THEN b ELSE c]

\* Shapes whose exponential averages keep small denominators (at most two
\* rows after a flat start), so that every fraction fits in 32 bits, and the
\* others, on which no exponential average is requested.
SmoothShapes(n) ==
    {Flat(n), LateMove(n, 10, 10, 12), LateMove(n, 10, 12, 11), LateMove(n, 12, 10, 10)}
RoughShapes(n) == {RampUp(n), RampDown(n), ZigZag(n), Mixed(n)}

NoEwm == {"SMA(10)", "SMA(50)", "RSI", "Bollinger Bands"}

\* The requested sets tried on long series: each name alone, and all.
Singles(names) == {{x} : x \in names}

FullColumns == BaseColumns

\* Inputs enumerated exhaustively: every short series in every row order,
\* every requested set, with and without the Date and Close columns.
ShortInputs ==
    UNION {
        {[table |-> MakeTable(p, v, cols), ind |-> ind] :
            p \in Perms(n), v \in [1..n -> CloseVals],
            cols \in {BaseColumns, BaseColumns \ {"Close"}, BaseColumns \ {"Date"}},
            ind \in SUBSET Indicators}
        : n \in 0..MaxLen}

\* Lengths of the shaped series: every length up to MaxRows, and the lengths
\* around the longest window.
LongLengths ==
    ((MaxLen + 1)..MaxRows) \cup ((SMA50Window - 1)..(SMA50Window + 1))

LongInputs ==
    UNION {
        {[table |-> MakeTable(p, v, FullColumns), ind |-> ind] :
            p \in LongOrders(n), v \in SmoothShapes(n),
            ind \in Singles(Indicators) \cup {Indicators}}
        \cup
        {[table |-> MakeTable(p, v, FullColumns), ind |-> ind] :
            p \in LongOrders(n), v \in RoughShapes(n),
            ind \in Singles(NoEwm) \cup {NoEwm}}
        : n \in LongLengths}

Inputs == ShortInputs \cup LongInputs

(***************************************************************************)
(* State.                                                                  *)
(***************************************************************************)
VARIABLES
    heap,        \* the table objects: reference -> table
    indicators,  \* the `indicators` argument
    data,        \* the local name `data`: a reference (Null before line 30)
    close,       \* the local name `close`: the Series data['Close']
    pc,          \* position in compute_technical_indicators
    err,         \* the exception raised, if any
    ret,         \* the reference returned (Null until return)
    \* The Technical Indicators page (lines 330-486), the function's caller:
    page,                 \* position in the page script ("off": no page)
    selected_indicators,  \* the names chosen in the multiselect
    ticker_data,          \* the page's name `ticker_data`: a reference
    row_count,            \* rows asked of make_subplots
    current_row,          \* the row the next trace goes to
    fig,                  \* the figure: its rows, subplot titles and traces
    page_err              \* the exception raised by the page, if any

pagevars ==
    <<page, selected_indicators, ticker_data, row_count, current_row, fig, page_err>>

vars == <<heap, indicators, data, close, pc, err, ret, pagevars>>

Null == 0
\* The table the caller passes, and the one sort_values(...).copy() creates.
CallerRef == 1
FreshRef == 2
Refs == {CallerRef, FreshRef}
NoTable == [c \in {} |-> <<>>]
NoFigure == [rows |-> 0, titles |-> <<>>, traces |-> <<>>]

\* The page state when the function is called on its own.
PageOff ==
    /\ page = "off"
    /\ selected_indicators = {}
    /\ ticker_data = Null
    /\ row_count = 0
    /\ current_row = 0
    /\ fig = NoFigure
    /\ page_err = "none"

Init ==
    \E in \in Inputs :
        /\ heap = [r \in Refs |-> IF r = CallerRef THEN in.table ELSE NoTable]
        /\ indicators = in.ind
        /\ data = Null
        /\ close = <<>>
        /\ pc = "start"
        /\ err = "none"
        /\ ret = Null
        /\ PageOff

\* Variant: the table is sorted in place and `data` keeps naming the
\* caller's object.
SameObject(arg) == arg

\* The object `data` names after line 30: sort_values returns a new table
\* and copy() another, so never the caller's.
SortedCopyRef(arg) == FreshRef

\* line 30: data = data.sort_values('Date').copy()
SortCopy ==
    /\ pc = "start"
    /\ IF "Date" \in Columns(heap[CallerRef])
       THEN /\ data' = SortedCopyRef(CallerRef)
            /\ heap' = [heap EXCEPT
                         ![SortedCopyRef(CallerRef)] =
                             Copy(SortValues(heap[CallerRef], "Date"))]
            /\ pc' = "close"
            /\ err' = err
       ELSE /\ err' = "KeyError"
            /\ pc' = "raised"
            /\ UNCHANGED <<heap, data>>
    /\ UNCHANGED <<indicators, close, ret>>
    /\ UNCHANGED pagevars

\* Variant: a missing Close column is read as an all-missing Series.
ReadCloseLenient ==
    /\ pc = "close"
    /\ close' = IF "Close" \in Columns(heap[data]) THEN heap[data]["Close"]
                ELSE [i \in 1..NRows(heap[data]) |-> NaN]
    /\ pc' = "sma10"
    /\ UNCHANGED <<heap, indicators, data, err, ret>>
    /\ UNCHANGED pagevars

\* line 33: close = data['Close']
ReadClose ==
    /\ pc = "close"
    /\ IF "Close" \in Columns(heap[data])
       THEN /\ close' = heap[data]["Close"]
            /\ pc' = "sma10"
            /\ err' = err
       ELSE /\ err' = "KeyError"
            /\ pc' = "raised"
            /\ close' = close
    /\ UNCHANGED <<heap, indicators, data, ret>>
    /\ UNCHANGED pagevars

\* lines 35-37
SMA10 ==
    /\ pc = "sma10"
    /\ heap' = [heap EXCEPT ![data] = SMA10Block(heap[data], close, indicators)]
    /\ pc' = "sma50"
    /\ UNCHANGED <<indicators, data, close, err, ret>>
    /\ UNCHANGED pagevars

\* lines 39-41
SMA50 ==
    /\ pc = "sma50"
    /\ heap' = [heap EXCEPT ![data] = SMA50Block(heap[data], close, indicators)]
    /\ pc' = "ema10"
    /\ UNCHANGED <<indicators, data, close, err, ret>>
    /\ UNCHANGED pagevars

\* lines 43-45
EMA10 ==
    /\ pc = "ema10"
    /\ heap' = [heap EXCEPT ![data] = EMA10Block(heap[data], close, indicators)]
    /\ pc' = "ema50"
    /\ UNCHANGED <<indicators, data, close, err, ret>>
    /\ UNCHANGED pagevars

\* lines 47-49
EMA50 ==
    /\ pc = "ema50"
    /\ heap' = [heap EXCEPT ![data] = EMA50Block(heap[data], close, indicators)]
    /\ pc' = "macd"
    /\ UNCHANGED <<indicators, data, close, err, ret>>
    /\ UNCHANGED pagevars

\* lines 51-57
MACD ==
    /\ pc = "macd"
    /\ heap' = [heap EXCEPT ![data] = MACDBlock(heap[data], close, indicators)]
    /\ pc' = "rsi"
    /\ UNCHANGED <<indicators, data, close, err, ret>>
    /\ UNCHANGED pagevars

\* lines 59-68
RSI ==
    /\ pc = "rsi"
    /\ heap' = [heap EXCEPT ![data] = RSIBlock(heap[data], close, indicators)]
    /\ pc' = "bb"
    /\ UNCHANGED <<indicators, data, close, err, ret>>
    /\ UNCHANGED pagevars

\* lines 70-75
BB ==
    /\ pc = "bb"
    /\ heap' = [heap EXCEPT ![data] = BBBlock(heap[data], close, indicators)]
    /\ pc' = "return"
    /\ UNCHANGED <<indicators, data, close, err, ret>>
    /\ UNCHANGED pagevars

\* line 77: return data
Return ==
    /\ pc = "return"
    /\ ret' = data
    /\ pc' = "done"
    /\ UNCHANGED <<heap, indicators, data, close, err>>
    /\ UNCHANGED pagevars

Next ==
    \/ SortCopy
    \/ ReadClose
    \/ SMA10
    \/ SMA50
    \/ EMA10
    \/ EMA50
    \/ MACD
    \/ RSI
    \/ BB
    \/ Return

Spec == Init /\ [][Next]_vars

(***************************************************************************)
(* The Technical Indicators page, lines 302-486: it calls the function on  *)
(* the selected ticker's rows when some indicator is selected, then builds *)
(* a figure of one to three rows and adds the traces.                      *)
(***************************************************************************)
\* Numeric columns the page requires of the dataset (lines 282-285).
PageColumns == {"Date", "Open", "High", "Low", "Close", "Volume"}

\* The page's tables are in Date order (line 316).
PageInputs ==
    UNION {
        {[table |-> MakeTable([i \in 1..n |-> i], v, PageColumns), ind |-> ind] :
            v \in [1..n -> CloseVals], ind \in SUBSET Indicators}
        : n \in 0..MaxLen}
    \cup
    UNION {
        {[table |-> MakeTable([i \in 1..n |-> i], v, PageColumns), ind |-> ind] :
            v \in SmoothShapes(n), ind \in Singles(Indicators) \cup {Indicators}}
        \cup
        {[table |-> MakeTable([i \in 1..n |-> i], v, PageColumns), ind |-> ind] :
            v \in RoughShapes(n), ind \in Singles(NoEwm) \cup {NoEwm}}
        : n \in LongLengths}

PageInit ==
    \E in \in PageInputs :
        /\ heap = [r \in Refs |-> IF r = CallerRef THEN in.table ELSE NoTable]
        /\ indicators = {}
        /\ data = Null
        /\ close = <<>>
        /\ pc = "idle"
        /\ err = "none"
        /\ ret = Null
        /\ page = "select"
        /\ selected_indicators = in.ind
        /\ ticker_data = CallerRef
        /\ row_count = 0
        /\ current_row = 0
        /\ fig = NoFigure
        /\ page_err = "none"

\* line 337: if selected_indicators:
ShouldCompute(sel) == sel # {}

\* lines 336-338: the call, when something is selected
CallCompute ==
    /\ page = "select"
    /\ IF ShouldCompute(selected_indicators)
       THEN /\ indicators' = selected_indicators
            /\ pc' = "start"
            /\ page' = "calling"
       ELSE /\ page' = "rows"
            /\ UNCHANGED <<indicators, pc>>
    /\ UNCHANGED <<heap, data, close, err, ret>>
    /\ UNCHANGED <<selected_indicators, ticker_data, row_count, current_row, fig, page_err>>

\* line 338: ticker_data = <the table returned>
AssignResult ==
    /\ page = "calling"
    /\ pc = "done"
    /\ ticker_data' = ret
    /\ page' = "rows"
    /\ UNCHANGED <<heap, indicators, data, close, pc, err, ret>>
    /\ UNCHANGED <<selected_indicators, row_count, current_row, fig, page_err>>

\* Variant: only the MACD row is counted.
RowCountMACDOnly(sel) == 1 + (IF "MACD" \in sel THEN 1 ELSE 0)

\* lines 348-352
RowCount(sel) ==
    1 + (IF "MACD" \in sel THEN 1 ELSE 0) + (IF "RSI" \in sel THEN 1 ELSE 0)

\* lines 359-361
SubplotTitles(sel) ==
    <<"Candlestick with Overlays">>
    \o (IF "MACD" \in sel THEN <<"MACD">> ELSE <<>>)
    \o (IF "RSI" \in sel THEN <<"RSI">> ELSE <<>>)

\* lines 348-352
CountRows ==
    /\ page = "rows"
    /\ row_count' = RowCount(selected_indicators)
    /\ page' = "subplots"
    /\ UNCHANGED <<heap, indicators, data, close, pc, err, ret>>
    /\ UNCHANGED <<selected_indicators, ticker_data, current_row, fig, page_err>>

\* lines 354-365: make_subplots(rows=row_count, ...); current_row = 1
MakeSubplots ==
    /\ page = "subplots"
    /\ fig' = [rows |-> row_count,
               titles |-> SubplotTitles(selected_indicators),
               traces |-> <<>>]
    /\ current_row' = 1
    /\ page' = "candlestick"
    /\ UNCHANGED <<heap, indicators, data, close, pc, err, ret>>
    /\ UNCHANGED <<selected_indicators, ticker_data, row_count, page_err>>

\* A trace (or shape) to add: its name, the columns of ticker_data it reads
\* and the row of the figure it goes to.
Trace(name, reads, row) == [name |-> name, reads |-> reads, row |-> row]

\* fig.add_trace(..., row=, col=1) for each of `ts` in turn, reading the
\* columns from the table t: a missing column raises KeyError, a row the
\* figure does not have makes plotly raise; the traces before stay added.
RECURSIVE AddTraces(_, _, _)
AddTraces(st, t, ts) ==
    IF ts = <<>> \/ st.err # "none" THEN st
    ELSE LET tr == Head(ts)
         IN  AddTraces(
                 IF ~(tr.reads \subseteq Columns(t)) THEN [st EXCEPT !.err = "KeyError"]
                 ELSE IF tr.row \notin 1..st.fig.rows
                      THEN [st EXCEPT !.err = "PlotlyError"]
                 ELSE [st EXCEPT !.fig.traces = Append(@, tr)],
                 t, Tail(ts))

\* The page step that adds `ts` and goes on to `next`, or fails.
Plot(ts, next) ==
    LET st == AddTraces([fig |-> fig, err |-> "none"], heap[ticker_data], ts)
    IN  /\ fig' = st.fig
        /\ page_err' = st.err
        /\ page' = IF st.err = "none" THEN next ELSE "failed"

\* lines 367-380
PlotCandlestick ==
    /\ page = "candlestick"
    /\ Plot(<<Trace("Candlestick", {"Date", "Open", "High", "Low", "Close"},
                    current_row)>>, "overlays")
    /\ UNCHANGED <<heap, indicators, data, close, pc, err, ret>>
    /\ UNCHANGED <<selected_indicators, ticker_data, row_count, current_row>>

\* line 384
OverlayNames == <<"SMA10", "SMA50", "EMA10", "EMA50">>

\* Variant: every overlay is drawn.
DrawsOverlayAlways(t, ind) == TRUE

\* line 385: if ind in ticker_data.columns
DrawsOverlay(t, ind) == ind \in Columns(t)

\* lines 382-394
PlotOverlays ==
    /\ page = "overlays"
    /\ LET Drawn(ind) == DrawsOverlay(heap[ticker_data], ind)
           names == SelectSeq(OverlayNames, Drawn)
       IN  Plot([k \in 1..Len(names) |-> Trace(names[k], {"Date", names[k]}, current_row)],
                "bollinger")
    /\ UNCHANGED <<heap, indicators, data, close, pc, err, ret>>
    /\ UNCHANGED <<selected_indicators, ticker_data, row_count, current_row>>

\* lines 396-417
PlotBollinger ==
    /\ page = "bollinger"
    /\ Plot(IF "Bollinger Bands" \in selected_indicators
            THEN <<Trace("BB Upper", {"Date", "BB_Upper"}, current_row),
                   Trace("BB Lower", {"Date", "BB_Lower"}, current_row)>>
            ELSE <<>>,
            "macd")
    /\ UNCHANGED <<heap, indicators, data, close, pc, err, ret>>
    /\ UNCHANGED <<selected_indicators, ticker_data, row_count, current_row>>

\* lines 419-449
PlotMACD ==
    /\ page = "macd"
    /\ IF "MACD" \in selected_indicators
       THEN /\ current_row' = current_row + 1
            /\ Plot(<<Trace("MACD", {"Date", "MACD"}, current_row + 1),
                      Trace("MACD Signal", {"Date", "MACD_Signal"}, current_row + 1),
                      Trace("MACD Hist", {"Date", "MACD_Hist"}, current_row + 1)>>,
                    "rsi")
       ELSE /\ current_row' = current_row
            /\ Plot(<<>>, "rsi")
    /\ UNCHANGED <<heap, indicators, data, close, pc, err, ret>>
    /\ UNCHANGED <<selected_indicators, ticker_data, row_count>>

\* lines 451-473: the RSI trace and the two threshold bands
PlotRSI ==
    /\ page = "rsi"
    /\ IF "RSI" \in selected_indicators
       THEN /\ current_row' = current_row + 1
            /\ Plot(<<Trace("RSI", {"Date", "RSI"}, current_row + 1),
                      Trace("hrect 70", {}, current_row + 1),
                      Trace("hrect 30", {}, current_row + 1)>>,
                    "layout")
       ELSE /\ current_row' = current_row
            /\ Plot(<<>>, "layout")
    /\ UNCHANGED <<heap, indicators, data, close, pc, err, ret>>
    /\ UNCHANGED <<selected_indicators, ticker_data, row_count>>

\* lines 475-486: update_layout(...), st.plotly_chart(fig)
ShowChart ==
    /\ page = "layout"
    /\ page' = "shown"
    /\ UNCHANGED <<heap, indicators, data, close, pc, err, ret>>
    /\ UNCHANGED <<selected_indicators, ticker_data, row_count, current_row, fig, page_err>>

PageNext ==
    \/ Next
    \/ CallCompute
    \/ AssignResult
    \/ CountRows
    \/ MakeSubplots
    \/ PlotCandlestick
    \/ PlotOverlays
    \/ PlotBollinger
    \/ PlotMACD
    \/ PlotRSI
    \/ ShowChart

PageSpec == PageInit /\ [][PageNext]_vars

(***************************************************************************)
(* The call as a function: lines 30-77 composed.                           *)
(***************************************************************************)
ApplyBlocks(d, c, ind) ==
    BBBlock(RSIBlock(MACDBlock(EMA50Block(EMA10Block(SMA50Block(
        SMA10Block(d, c, ind), c, ind), c, ind), c, ind), c, ind), c, ind), c, ind)

Compute(t, ind) ==
    LET d == Copy(SortValues(t, "Date")) IN ApplyBlocks(d, d["Close"], ind)

(***************************************************************************)
(* Vocabulary of the properties.                                           *)
(***************************************************************************)
Done == pc = "done"
Raised == pc = "raised"
\* The table the caller passed and the table the call returned.
Input == heap[CallerRef]
Result == heap[ret]
Rows == 1..NRows(Result)
Requested(x) == Done /\ x \in indicators

\* The close price at row i of the result, as an integer.
CloseI(i) == Result["Close"][i][1]

RECURSIVE CloseSum(_, _)
CloseSum(lo, hi) == IF lo > hi THEN 0 ELSE CloseSum(lo, hi - 1) + CloseI(hi)

RECURSIVE CloseSqSum(_, _)
CloseSqSum(lo, hi) ==
    IF lo > hi THEN 0 ELSE CloseSqSum(lo, hi - 1) + CloseI(hi) * CloseI(hi)

\* The finite number x equals the fraction p/q (q > 0).
EqFrac(x, p, q) == ~IsSurd(x) /\ x[2] # 0 /\ x[1] * q = p * x[2]

\* y is the recursive exponential average of x with alpha = an/ad, seeded by
\* the first value of x, and has a finite value at every row.
IsRecursiveEma(y, x, an, ad) ==
    /\ Len(y) = Len(x)
    /\ \A i \in 1..Len(x) :
        /\ IsFinite(y[i])
        /\ IF i = 1 THEN y[i] = x[i]
           ELSE y[i] = Add(Mul(Rat(an, ad), x[i]), Mul(Rat(ad - an, ad), y[i - 1]))

IsAscending(s) == \A i \in 1..(Len(s) - 1) : s[i] < s[i + 1]

\* The input's rows are not already in Date order.
Unsorted == "Date" \in Columns(Input) /\ ~IsAscending(Input["Date"])

(***************************************************************************)
(* C1.  When "SMA(10)" is requested, at every row i (counted from 0) of    *)
(* the returned table SMA10[i] is the arithmetic mean of close[i-9..i] if  *)
(* i >= 9 and not-a-number if i < 9.                                       *)
(***************************************************************************)
C1_SMA10 ==
    Requested("SMA(10)") =>
        \A i \in Rows :
            IF i < 10 THEN Result["SMA10"][i] = NaN
            ELSE EqFrac(Result["SMA10"][i], CloseSum(i - 9, i), 10)

\* The scenario of the specification: closes 10..20 over 11 rows, passed in
\* another row order, give 14.5 at row 9 and 15.5 at row 10.
C1_Witness ==
    /\ Requested("SMA(10)")
    /\ Unsorted
    /\ NRows(Result) = 11
    /\ \A i \in Rows : CloseI(i) = 9 + i
    /\ \A i \in 1..9 : Result["SMA10"][i] = NaN
    /\ Result["SMA10"][10] = <<29, 2>>
    /\ Result["SMA10"][11] = <<31, 2>>

(***************************************************************************)
(* C2.  When "EMA(10)" is requested, EMA10[0] = close[0] and for i > 0     *)
(* EMA10[i] = close[i] * 2/11 + EMA10[i-1] * 9/11, and every EMA10[i] is a *)
(* number (no leading not-a-number entries).                               *)
(***************************************************************************)
C2_EMA10 ==
    Requested("EMA(10)") => IsRecursiveEma(Result["EMA10"], Result["Close"], 2, 11)

C2_Witness ==
    /\ Requested("EMA(10)")
    /\ NRows(Result) >= 3
    /\ CloseI(1) # CloseI(2)
    /\ CloseI(2) # CloseI(3)
    /\ Result["EMA10"][3][2] = 121

(***************************************************************************)
(* C3.  When "MACD" is requested, at every row MACD = EMA12 - EMA26 (the   *)
(* span-12 and span-26 recursive averages of close), MACD_Signal is the    *)
(* span-9 recursive average of MACD seeded by MACD[0], and                 *)
(* MACD_Hist = MACD - MACD_Signal.                                         *)
(***************************************************************************)
C3_MACD ==
    Requested("MACD") =>
        /\ IsRecursiveEma(Result["EMA12"], Result["Close"], 2, 13)
        /\ IsRecursiveEma(Result["EMA26"], Result["Close"], 2, 27)
        /\ IsRecursiveEma(Result["MACD_Signal"], Result["MACD"], 2, 10)
        /\ \A i \in Rows :
            /\ Result["MACD"][i] = Sub(Result["EMA12"][i], Result["EMA26"][i])
            /\ Result["MACD_Hist"][i] = Sub(Result["MACD"][i], Result["MACD_Signal"][i])

C3_Witness ==
    /\ Requested("MACD")
    /\ NRows(Result) >= 3
    /\ Result["MACD"][1] = Zero
    /\ Result["MACD"][2] # Zero
    /\ Result["MACD_Hist"][3] # Zero
    /\ Result["MACD_Signal"][3] # Result["MACD"][3]

(***************************************************************************)
(* C4.  When "RSI" is requested, at every row where the 14-period averages *)
(* are defined: RSI = 100 if avg_loss = 0 and avg_gain > 0, RSI is         *)
(* not-a-number if both are 0; and the call raises no error.               *)
(***************************************************************************)
\* Sums of the rises and of the falls of close over the 14 rows ending at
\* row i; the first row of the table has neither.
RECURSIVE GainSum(_, _)
GainSum(lo, hi) ==
    IF lo > hi THEN 0
    ELSE GainSum(lo, hi - 1)
         + (IF hi > 1 /\ CloseI(hi) > CloseI(hi - 1) THEN CloseI(hi) - CloseI(hi - 1) ELSE 0)

RECURSIVE LossSum(_, _)
LossSum(lo, hi) ==
    IF lo > hi THEN 0
    ELSE LossSum(lo, hi - 1)
         + (IF hi > 1 /\ CloseI(hi) < CloseI(hi - 1) THEN CloseI(hi - 1) - CloseI(hi) ELSE 0)

C4_RSIZeroLoss ==
    /\ ("RSI" \in indicators /\ {"Date", "Close"} \subseteq Columns(Input)) => err = "none"
    /\ Requested("RSI") =>
        \A i \in Rows :
            (i >= 14 /\ LossSum(i - 13, i) = 0) =>
                IF GainSum(i - 13, i) > 0
                THEN Result["RSI"][i] = <<100, 1>>
                ELSE Result["RSI"][i] = NaN

\* A series flat over its first 14 rows and rising afterwards has both cases.
C4_Witness ==
    /\ Requested("RSI")
    /\ NRows(Result) >= 15
    /\ LossSum(1, 14) = 0 /\ GainSum(1, 14) = 0 /\ Result["RSI"][14] = NaN
    /\ LossSum(2, 15) = 0 /\ GainSum(2, 15) > 0 /\ Result["RSI"][15] = <<100, 1>>
    /\ Result["rs"][15] = PosInf

(***************************************************************************)
(* C5.  When "Bollinger Bands" is requested, BB_MA and BB_STD are the      *)
(* 20-row rolling mean and sample standard deviation of close,             *)
(* BB_Upper = BB_MA + 2 BB_STD and BB_Lower = BB_MA - 2 BB_STD, so         *)
(* BB_Upper - BB_Lower = 4 BB_STD from row 19 on; the four columns are     *)
(* not-a-number on rows 0-18; where the 20 closes are one constant,        *)
(* BB_STD = 0 and BB_Upper = BB_Lower = BB_MA = the constant.              *)
(***************************************************************************)
\* The square of a non-negative number that is a fraction or a plain root.
SquareOf(x) == IF IsSurd(x) THEN x[3] ELSE <<x[1] * x[1], x[2] * x[2]>>

IsNonNegative(x) ==
    IF IsSurd(x) THEN x[1] = Zero /\ x[2] = One ELSE x[2] # 0 /\ x[1] >= 0

\* 380 times the sample variance of the 20 closes ending at row i:
\* 20 * sum(x^2) - sum(x)^2.
Var380(i) ==
    20 * CloseSqSum(i - 19, i) - CloseSum(i - 19, i) * CloseSum(i - 19, i)

BBColumns == {"BB_MA", "BB_STD", "BB_Upper", "BB_Lower"}

C5_Bollinger ==
    Requested("Bollinger Bands") =>
        \A i \in Rows :
            IF i < 20 THEN \A c \in BBColumns : Result[c][i] = NaN
            ELSE LET ma == Result["BB_MA"][i]
                     sd == Result["BB_STD"][i]
                     up == Result["BB_Upper"][i]
                     lo == Result["BB_Lower"][i]
                 IN  /\ EqFrac(ma, CloseSum(i - 19, i), 20)
                     /\ IsNonNegative(sd)
                     /\ SquareOf(sd) = Rat(Var380(i), 380)
                     /\ up = Add(ma, Mul(<<2, 1>>, sd))
                     /\ lo = Sub(ma, Mul(<<2, 1>>, sd))
                     /\ Sub(up, lo) = Mul(<<4, 1>>, sd)
                     /\ Var380(i) = 0 =>
                            /\ sd = Zero
                            /\ up = Result["Close"][i] /\ lo = up /\ ma = up

\* Twenty constant rows and then a move: a zero and a non-zero deviation.
C5_Witness ==
    /\ Requested("Bollinger Bands")
    /\ NRows(Result) >= 21
    /\ Result["BB_STD"][20] = Zero
    /\ Result["BB_Upper"][20] = Result["BB_Lower"][20]
    /\ IsSurd(Result["BB_STD"][21])
    /\ Result["BB_Upper"][21] # Result["BB_Lower"][21]

(***************************************************************************)
(* C6.  The columns the call adds to the input's are exactly those of the  *)
(* requested indicators: a column of an indicator that was not requested   *)
(* is absent, and with nothing requested the result has the input's        *)
(* columns.                                                                *)
(***************************************************************************)
ColumnsOf(x) ==
    CASE x = "SMA(10)" -> {"SMA10"}
      [] x = "SMA(50)" -> {"SMA50"}
      [] x = "EMA(10)" -> {"EMA10"}
      [] x = "EMA(50)" -> {"EMA50"}
      [] x = "MACD" -> {"EMA12", "EMA26", "MACD", "MACD_Signal", "MACD_Hist"}
      [] x = "RSI" -> {"diff", "gain", "loss", "avg_gain", "avg_loss", "rs", "RSI"}
      [] x = "Bollinger Bands" -> BBColumns

C6_OnlyRequestedColumns ==
    Done =>
        /\ Columns(Result) = Columns(Input) \cup UNION {ColumnsOf(x) : x \in indicators}
        /\ \A x \in Indicators \ indicators : ColumnsOf(x) \cap Columns(Result) = {}

C6_Witness ==
    /\ Done
    /\ indicators = {"SMA(10)", "RSI"}
    /\ NRows(Result) > 0
    /\ Columns(Result) \ Columns(Input) = ColumnsOf("SMA(10)") \cup ColumnsOf("RSI")
    /\ "SMA50" \notin Columns(Result)

(***************************************************************************)
(* C7.  On a table that has a Date column the call fails if and only if    *)
(* the Close column is absent; with Close present it completes for every   *)
(* requested set and every length, and the rows whose window cannot be     *)
(* filled hold not-a-number.                                               *)
(***************************************************************************)
Running == pc \notin {"done", "raised"}

\* The positions at which a statement of the function is about to run; each
\* statement's step is enabled by its position alone.
StepPoints ==
    {"start", "close", "sma10", "sma50", "ema10", "ema50", "macd", "rsi", "bb", "return"}

WindowOf(c) ==
    CASE c = "SMA10" -> SMA10Window
      [] c = "SMA50" -> SMA50Window
      [] c \in {"avg_gain", "avg_loss", "rs", "RSI"} -> RSIWindow
      [] c \in BBColumns -> BBWindow

RollingColumns == {"SMA10", "SMA50", "avg_gain", "avg_loss", "rs", "RSI"} \cup BBColumns

C7_FailsIffNoClose ==
    /\ Running => pc \in StepPoints
    /\ ("Date" \in Columns(Input) /\ ~Running) => (Raised <=> "Close" \notin Columns(Input))
    /\ Raised => err = "KeyError"
    /\ Done =>
        /\ err = "none"
        /\ \A c \in RollingColumns \cap Columns(Result) :
             \A i \in Rows : i < WindowOf(c) => Result[c][i] = NaN

C7_Witness ==
    /\ Raised
    /\ "Date" \in Columns(Input)
    /\ "Close" \notin Columns(Input)
    /\ NRows(Input) > 0
    /\ indicators # {}

(***************************************************************************)
(* C8.  For every row order of the input, the table the indicators are     *)
(* computed on, and the table returned, hold the input's rows in ascending *)
(* Date order, and the call on the same rows in another order (the first   *)
(* row moved last) returns the same table.                                 *)
(***************************************************************************)
\* The same rows with the first row moved to the end.
Rotated(t) == Take(t, [i \in 1..NRows(t) |-> (i % NRows(t)) + 1])

\* Every row of s is a row of t (on the columns of s).
RowsWithin(s, t) ==
    \A i \in 1..NRows(s) : \E k \in 1..NRows(t) : \A c \in Columns(s) : t[c][k] = s[c][i]

C8_SortedByDate ==
    /\ data # Null =>
        /\ IsAscending(heap[data]["Date"])
        /\ NRows(heap[data]) = NRows(Input)
        /\ RowsWithin(Input, heap[data])
    /\ Done =>
        /\ IsAscending(Result["Date"])
        /\ Compute(Rotated(Input), indicators) = Result

C8_Witness ==
    /\ Done
    /\ Unsorted
    /\ NRows(Input) >= 3
    /\ Result["Close"] # Input["Close"]
    /\ indicators = Indicators

C10_NoOrderingDependency ==
    Done =>
        \A x \in indicators :
            LET alone == Compute(Input, {x})
            IN  \A c \in ColumnsOf(x) : Result[c] = alone[c]

C10_Witness ==
    /\ Done
    /\ {"EMA(10)", "EMA(50)", "MACD"} \subseteq indicators
    /\ NRows(Result) >= 2
    /\ Result["MACD"][2] # Zero
    /\ Result["EMA12"][2] # Result["EMA10"][2]


(***************************************************************************)
(* The chart of the Technical Indicators page.                             *)
(***************************************************************************)
TraceNames == {fig.traces[k].name : k \in 1..Len(fig.traces)}
Selected(name) == name \in selected_indicators
FigureMade == fig # NoFigure
ExpectedRowCount == 1 + Cardinality(selected_indicators \cap {"MACD", "RSI"})
PriceRowNames ==
    {"Candlestick", "SMA10", "SMA50", "EMA10", "EMA50", "BB Upper", "BB Lower"}
MACDRowNames == {"MACD", "MACD Signal", "MACD Hist"}
RSIRowNames == {"RSI", "hrect 70", "hrect 30"}
ExpectedRowOf(name) ==
    IF name \in PriceRowNames THEN 1
    ELSE IF name \in MACDRowNames THEN 2
    ELSE IF Selected("MACD") THEN 3 ELSE 2

\* C11: for every selection the figure has 1 + [MACD selected] + [RSI
\* selected] rows and as many subplot titles; the candlestick and the
\* SMA/EMA/Bollinger overlays go to row 1, the MACD traces to row 2, the RSI
\* trace to row 3 when MACD is selected too and to row 2 otherwise; no trace
\* is added to a row beyond row_count, and current_row equals row_count once
\* the last trace is added.
C11_ChartRows ==
    /\ page_err # "PlotlyError"
    /\ FigureMade =>
           /\ row_count = ExpectedRowCount
           /\ fig.rows = row_count
           /\ Len(fig.titles) = row_count
    /\ \A k \in 1..Len(fig.traces) :
           /\ fig.traces[k].row <= row_count
           /\ fig.traces[k].row = ExpectedRowOf(fig.traces[k].name)
    /\ page \in {"layout", "shown"} =>
           /\ current_row = row_count
           /\ "Candlestick" \in TraceNames
           /\ Selected("MACD") => MACDRowNames \subseteq TraceNames
           /\ Selected("RSI") => RSIRowNames \subseteq TraceNames

C11_Witness ==
    /\ page = "shown"
    /\ Selected("MACD") /\ Selected("RSI") /\ Selected("Bollinger Bands")
    /\ row_count = 3
    /\ current_row = 3
    /\ \E k \in 1..Len(fig.traces) :
           fig.traces[k].name = "RSI" /\ fig.traces[k].row = 3
    /\ \E k \in 1..Len(fig.traces) :
           fig.traces[k].name = "MACD Hist" /\ fig.traces[k].row = 2
    /\ \E k \in 1..Len(fig.traces) :
           fig.traces[k].name = "BB Lower" /\ fig.traces[k].row = 1

\* The indicator whose column each overlay of line 384 shows.
OverlayIndicators == <<"SMA(10)", "SMA(50)", "EMA(10)", "EMA(50)">>
\* The indicator columns the step about to run reads from ticker_data.
ColumnsReadNext ==
    IF page = "bollinger" /\ Selected("Bollinger Bands") THEN {"BB_Upper", "BB_Lower"}
    ELSE IF page = "macd" /\ Selected("MACD") THEN {"MACD", "MACD_Signal", "MACD_Hist"}
    ELSE IF page = "rsi" /\ Selected("RSI") THEN {"RSI"}
    ELSE {}
OverlaysDone == page \in {"bollinger", "macd", "rsi", "layout", "shown"}

\* C12: for every selection, the empty one included (for which the function
\* is not called at all), every indicator column the chart code reads from
\* ticker_data is present in it when it is read, and an SMA/EMA overlay is
\* drawn if and only if its indicator was selected.
C12_ColumnsPresentWhenRead ==
    /\ page_err # "KeyError"
    /\ ColumnsReadNext \subseteq Columns(heap[ticker_data])
    /\ \A k \in 1..Len(fig.traces) :
           fig.traces[k].reads \subseteq Columns(heap[ticker_data])
    /\ OverlaysDone =>
           \A k \in 1..Len(OverlayNames) :
               OverlayNames[k] \in TraceNames <=> Selected(OverlayIndicators[k])
    /\ page = "shown" =>
           /\ Selected("Bollinger Bands") => {"BB Upper", "BB Lower"} \subseteq TraceNames
           /\ Selected("MACD") => MACDRowNames \subseteq TraceNames
           /\ Selected("RSI") => "RSI" \in TraceNames
    /\ (selected_indicators = {} /\ page # "select") =>
           /\ pc = "idle"
           /\ ticker_data = CallerRef

C12_Witness ==
    /\ page = "shown"
    /\ Selected("SMA(10)") /\ ~Selected("SMA(50)")
    /\ Selected("EMA(50)") /\ ~Selected("EMA(10)")
    /\ Selected("Bollinger Bands") /\ Selected("MACD") /\ Selected("RSI")
    /\ {"SMA10", "EMA50", "BB Upper", "MACD Signal", "RSI"} \subseteq TraceNames
    /\ "SMA50" \notin TraceNames
    /\ "EMA10" \notin TraceNames
    /\ NRows(heap[ticker_data]) > 0

====
